---- MODULE Spec2Model ----
(***************************************************************************)
(* strava-cli: the config store (config.py), the token lifecycle of        *)
(* StravaClient (client.py), the `auth` commands (commands/auth.py) and    *)
(* the OAuth authorization-code flow with its one-shot callback listener   *)
(* (auth.py), as state machines.                                           *)
(*                                                                         *)
(* Python's None is the string "None" for str fields and NoInt for int     *)
(* fields; a dict key that is missing is the string "Absent".              *)
(***************************************************************************)
EXTENDS Integers, Sequences, FiniteSets, TLC

VARIABLES
    file,       \* the config file at the default path: [exists, malformed, data]
    perm,       \* modes of the config directory and file, the process umask
    saver,      \* position of a Config.save in progress, and its document
    env,        \* the process environment: STRAVA_* variables
    last,       \* what the last CLI invocation / client call did
    handler,    \* OAuthCallbackHandler's class attributes
    expected,   \* the state token interactive_login generated
    req,        \* the HTTP request the listener accepted (raw query values)
    fg,         \* position of the foreground login flow
    worker,     \* position of the listener thread
    serverOpen, \* the listener socket is open
    login,      \* outcome of the login flow
    linger      \* a listener thread an earlier flow of the process left alive

vars ==
    <<file, perm, saver, env, last, handler, expected, req, fg, worker,
      serverOpen, login, linger>>

-----------------------------------------------------------------------------
(* Bounds *)

\* the clock reads 0..MaxTime
MaxTime == 2
\* expires_at values stored in files are 1..MaxExpiry
MaxExpiry == 1

-----------------------------------------------------------------------------
(* Values *)

None == "None"
NoError == "NoError"
NoInt == -1
Absent == "Absent"

Truthy(s) == s # None /\ s # ""
TruthyInt(n) == n # NoInt /\ n # 0

\* int(client_id): the strings that parse as an integer
IsNumeric(s) == s \in {"12345", "67890"}

-----------------------------------------------------------------------------
(* config.py: AuthConfig, DefaultsConfig, Config *)

AuthConfig(a, r, e, id, sc) ==
    [access_token |-> a, refresh_token |-> r, expires_at |-> e,
     athlete_id |-> id, scopes |-> sc]

EmptyAuth == AuthConfig(None, None, NoInt, NoInt, <<>>)

DefaultsConfig == [format |-> "json", limit |-> 30]

NoProfiles == [n \in {} |-> EmptyAuth]

Config(auth, defaults, profiles, cid, csec) ==
    [auth |-> auth, defaults |-> defaults, profiles |-> profiles,
     client_id |-> cid, client_secret |-> csec]

EmptyConfig == Config(EmptyAuth, DefaultsConfig, NoProfiles, None, None)

is_authenticated_any_token(auth) ==
    auth.access_token # None \/ auth.refresh_token # None

is_authenticated(auth) == auth.access_token # None

is_expired_strict(auth, t) ==
    IF auth.expires_at = NoInt THEN TRUE ELSE t > auth.expires_at

is_expired(auth, t) ==
    IF auth.expires_at = NoInt THEN TRUE ELSE t >= auth.expires_at

\* The TOML document: sections client, auth, defaults, profiles.<name>; a key
\* that is not in the file reads as None through dict.get (scopes as []).
Toml(cid, csec, auth, defaults, profiles) ==
    [client |-> [id |-> cid, secret |-> csec], auth |-> auth,
     defaults |-> defaults, profiles |-> profiles]

EmptyToml == Toml(None, None, EmptyAuth, DefaultsConfig, NoProfiles)

NoFile == [exists |-> FALSE, malformed |-> FALSE, data |-> EmptyToml]

\* a file tomllib.load rejects
MalformedFile == [exists |-> TRUE, malformed |-> TRUE, data |-> EmptyToml]

_load_from_file(data) ==
    Config(AuthConfig(data.auth.access_token, data.auth.refresh_token,
                      data.auth.expires_at, data.auth.athlete_id,
                      data.auth.scopes),
           [format |-> data.defaults.format, limit |-> data.defaults.limit],
           [n \in DOMAIN data.profiles |->
               AuthConfig(data.profiles[n].access_token,
                          data.profiles[n].refresh_token,
                          data.profiles[n].expires_at,
                          data.profiles[n].athlete_id,
                          data.profiles[n].scopes)],
           data.client.id, data.client.secret)

_apply_env_defaults(cfg, e) ==
    [cfg EXCEPT
        !.auth.access_token =
            IF @ = None /\ Truthy(e.STRAVA_ACCESS_TOKEN)
            THEN e.STRAVA_ACCESS_TOKEN ELSE @,
        !.auth.refresh_token =
            IF @ = None /\ Truthy(e.STRAVA_REFRESH_TOKEN)
            THEN e.STRAVA_REFRESH_TOKEN ELSE @]

_apply_env_overrides(cfg, e) ==
    [cfg EXCEPT
        !.auth.access_token =
            IF Truthy(e.STRAVA_ACCESS_TOKEN) THEN e.STRAVA_ACCESS_TOKEN ELSE @,
        !.auth.refresh_token =
            IF Truthy(e.STRAVA_REFRESH_TOKEN) THEN e.STRAVA_REFRESH_TOKEN ELSE @]

\* tomllib.load raises TOMLDecodeError on malformed content; neither
\* _load_from_file nor Config.load catches it
load_error(f) == IF f.exists /\ f.malformed THEN "TOMLDecodeError" ELSE NoError

\* Config.load() with no path: the default path
Load(f, e) ==
    _apply_env_overrides(IF f.exists THEN _load_from_file(f.data) ELSE EmptyConfig, e)

SavedAuthTokensOnly(a, withScopes) ==
    [access_token |-> IF Truthy(a.access_token) THEN a.access_token ELSE None,
     refresh_token |-> IF Truthy(a.refresh_token) THEN a.refresh_token ELSE None,
     expires_at |-> IF TruthyInt(a.expires_at) THEN a.expires_at ELSE NoInt,
     athlete_id |-> IF withScopes /\ TruthyInt(a.athlete_id) THEN a.athlete_id
                    ELSE NoInt,
     scopes |-> IF withScopes THEN a.scopes ELSE <<>>]

\* what Config.save writes: falsy values are left out, a profile's scopes
\* are never written
SavedAuth(a, withScopes) ==
    [access_token |-> IF Truthy(a.access_token) THEN a.access_token ELSE None,
     refresh_token |-> IF Truthy(a.refresh_token) THEN a.refresh_token ELSE None,
     expires_at |-> IF TruthyInt(a.expires_at) THEN a.expires_at ELSE NoInt,
     athlete_id |-> IF TruthyInt(a.athlete_id) THEN a.athlete_id ELSE NoInt,
     scopes |-> IF withScopes THEN a.scopes ELSE <<>>]

\* save writes every string between double quotes as it is and every
\* profile name as a bare key: a string with a quote or a backslash, or a
\* name that is no bare key, makes text that is not the TOML of the document
SpecialStrings == {"to\"ken"}

NonBareKeys == {"my profile"}

Plain(s) == s \notin SpecialStrings

PlainAuth(a) ==
    /\ Plain(a.access_token)
    /\ Plain(a.refresh_token)

WellFormed(cfg) ==
    /\ Plain(cfg.client_id)
    /\ Plain(cfg.client_secret)
    /\ PlainAuth(cfg.auth)
    /\ \A i \in 1..Len(cfg.auth.scopes) : Plain(cfg.auth.scopes[i])
    /\ Plain(cfg.defaults.format)
    /\ \A n \in DOMAIN cfg.profiles :
          n \notin NonBareKeys /\ PlainAuth(cfg.profiles[n])

SavedToml(cfg) ==
    Toml(IF Truthy(cfg.client_id) THEN cfg.client_id ELSE None,
         IF Truthy(cfg.client_secret) THEN cfg.client_secret ELSE None,
         SavedAuth(cfg.auth, TRUE),
         cfg.defaults,
         [n \in DOMAIN cfg.profiles |-> SavedAuth(cfg.profiles[n], FALSE)])

\* the file after a completed Config.save
save(cfg) ==
    IF WellFormed(cfg)
    THEN [exists |-> TRUE, malformed |-> FALSE, data |-> SavedToml(cfg)]
    ELSE MalformedFile

\* stat.S_IRWXU, stat.S_IRUSR, stat.S_IWUSR
S_IRWXU == 448
S_IRUSR == 256
S_IWUSR == 128

\* the modes mkdir and open ask for when they create (0o777, 0o666), before
\* the umask
MkdirMode == 511
OpenMode == 438

\* mode & ~umask
RECURSIVE AndNot(_, _)
AndNot(m, u) ==
    IF m = 0 THEN 0
    ELSE (IF m % 2 = 1 /\ u % 2 = 0 THEN 1 ELSE 0) + 2 * AndNot(m \div 2, u \div 2)

\* the group and other bits of a mode
GroupOther(m) == m % 64

OwnerMayWrite(m) == (m \div S_IWUSR) % 2 = 1

Perm(dir, f, umask) == [dir |-> dir, file |-> f, umask |-> umask]

\* Config.save, statement by statement on the modes:
\* config_path.parent.mkdir(parents=True, exist_ok=True)
mkdir(p) ==
    IF p.dir = NoInt THEN [p EXCEPT !.dir = AndNot(MkdirMode, p.umask)] ELSE p

\* config_path.parent.chmod(stat.S_IRWXU)
chmod_dir(p) == [p EXCEPT !.dir = S_IRWXU]

\* config_path.write_text(...): a new file gets the open mode less the
\* umask, an existing one keeps its mode
write_text(p) ==
    IF p.file = NoInt THEN [p EXCEPT !.file = AndNot(OpenMode, p.umask)] ELSE p

\* write_text raises PermissionError on an existing file its owner may not
\* write
MayWrite(p) == p.file = NoInt \/ OwnerMayWrite(p.file)

chmod_file_group_readable(p) == [p EXCEPT !.file = S_IRUSR + S_IWUSR + 32]

\* config_path.chmod(stat.S_IRUSR | stat.S_IWUSR)
chmod_file(p) == [p EXCEPT !.file = S_IRUSR + S_IWUSR]

\* the modes after a completed Config.save
AfterSave(p) == chmod_file(write_text(chmod_dir(mkdir(p))))

\* the file holds a token or the client secret
HasTokens(f) ==
    /\ f.exists
    /\ \/ f.malformed
       \/ Truthy(f.data.auth.access_token)
       \/ Truthy(f.data.auth.refresh_token)
       \/ Truthy(f.data.client.secret)
       \/ \E n \in DOMAIN f.data.profiles :
             \/ Truthy(f.data.profiles[n].access_token)
             \/ Truthy(f.data.profiles[n].refresh_token)

\* the record get_profile returns, as a slot of the document: "auth" is the
\* default record
Slot(cfg, name) ==
    IF Truthy(name) /\ name \in DOMAIN cfg.profiles THEN name ELSE "auth"

get_profile_or_empty(cfg, name) ==
    IF ~Truthy(name) THEN cfg.auth
    ELSE IF name \in DOMAIN cfg.profiles THEN cfg.profiles[name] ELSE EmptyAuth

get_profile(cfg, name) ==
    IF Slot(cfg, name) = "auth" THEN cfg.auth ELSE cfg.profiles[name]

clear_auth_dropping_profile(cfg, profile) ==
    IF Truthy(profile) /\ profile \in DOMAIN cfg.profiles
    THEN [cfg EXCEPT !.profiles =
             [n \in DOMAIN cfg.profiles \ {profile} |-> cfg.profiles[n]]]
    ELSE [cfg EXCEPT !.auth = EmptyAuth]

clear_auth(cfg, profile) ==
    IF Truthy(profile) /\ profile \in DOMAIN cfg.profiles
    THEN [cfg EXCEPT !.profiles[profile] = EmptyAuth]
    ELSE [cfg EXCEPT !.auth = EmptyAuth]

SetAuth(cfg, slot, a) ==
    IF slot = "auth" THEN [cfg EXCEPT !.auth = a]
    ELSE [cfg EXCEPT !.profiles[slot] = a]

\* get_client_credentials() called with no config: environment first, then
\* Config.load() of the default path
get_client_credentials(f, e) ==
    LET cfg == Load(f, e)
        id == IF Truthy(e.STRAVA_CLIENT_ID) THEN e.STRAVA_CLIENT_ID ELSE cfg.client_id
        sec == IF Truthy(e.STRAVA_CLIENT_SECRET) THEN e.STRAVA_CLIENT_SECRET
               ELSE cfg.client_secret
    IN  [client_id |-> id, client_secret |-> sec]

-----------------------------------------------------------------------------
(* exceptions.py *)


LoginHint == "Run 'strava auth login' to re-authenticate."
SetupHint == "See 'strava auth login --help' for setup instructions."
NoHint == "NoHint"

\* the classes of exceptions.py
StravaCLIErrors ==
    {"StravaCLIError", "AuthenticationError", "TokenExpiredError",
     "TokenRefreshError", "ConfigurationError", "MissingCredentialsError",
     "RateLimitError", "APIError", "NotFoundError", "ValidationError",
     "FileError", "UploadError"}

exit_code_generic(err) == IF err = NoError THEN 0 ELSE 1

\* the exit_code attribute of the class; an exception of no class of
\* exceptions.py ends the process with a traceback and code 1
exit_code(err) ==
    CASE err = NoError -> 0
      [] err \in {"AuthenticationError", "TokenExpiredError", "TokenRefreshError",
                  "ConfigurationError", "MissingCredentialsError",
                  "ValidationError"} -> 2
      [] OTHER -> 1

-----------------------------------------------------------------------------
(* client.py: StravaClient *)

\* the upstream answer to a refresh_token grant: an error, or a mapping that
\* may lack keys
Response(status, keys, a, r, e) ==
    [status |-> status, keys |-> keys, access_token |-> a, refresh_token |-> r,
     expires_at |-> e]

NoResponse == Response("none", {}, None, None, NoInt)

\* the result of a client call: the exception raised (or NoError), the config
\* object and the file afterwards, the calls of refresh_token made and the
\* requests sent to the token endpoint
Result(err, hint, cfg, f, calls, exchanges) ==
    [err |-> err, hint |-> hint, cfg |-> cfg, file |-> f,
     refreshCalls |-> calls, exchanges |-> exchanges]

\* the call ended with a completed Config.save
Saved(r) == r.err = NoError /\ r.exchanges > 0

SlotAuth(cfg, slot) == IF slot = "auth" THEN cfg.auth ELSE cfg.profiles[slot]

AssignedStaleRefresh(a, resp, n) ==
    [a EXCEPT
        !.access_token = IF n >= 1 THEN resp.access_token ELSE @,
        !.expires_at = IF n >= 3 THEN resp.expires_at ELSE @]

\* the record after the first n of the three assignments from the answer
Assigned(a, resp, n) ==
    [a EXCEPT
        !.access_token = IF n >= 1 THEN resp.access_token ELSE @,
        !.refresh_token = IF n >= 2 THEN resp.refresh_token ELSE @,
        !.expires_at = IF n >= 3 THEN resp.expires_at ELSE @]

refresh_token(cfg, slot, f, e, resp) ==
    LET a == SlotAuth(cfg, slot)
        fail(c, n) == Result("TokenRefreshError", LoginHint, c, f, 1, n)
        after(n) == SetAuth(cfg, slot, Assigned(a, resp, n))
        with(creds) ==
            IF ~Truthy(creds.client_id) \/ ~Truthy(creds.client_secret)
            THEN Result("MissingCredentialsError", SetupHint, cfg, f, 1, 0)
            ELSE IF ~Truthy(a.refresh_token) THEN fail(cfg, 0)
            ELSE IF ~IsNumeric(creds.client_id) THEN fail(cfg, 0)
            ELSE IF resp.status # "ok" THEN fail(cfg, 1)
            ELSE IF "access_token" \notin resp.keys THEN fail(cfg, 1)
            ELSE IF "refresh_token" \notin resp.keys THEN fail(after(1), 1)
            ELSE IF "expires_at" \notin resp.keys THEN fail(after(2), 1)
            ELSE Result(NoError, NoHint, after(3), save(after(3)), 1, 1)
    IN  with(get_client_credentials(f, e))

ensure_authenticated_best_effort(cfg, slot, f, e, resp, t) ==
    LET a == SlotAuth(cfg, slot)
        r == refresh_token(cfg, slot, f, e, resp)
    IN  IF ~is_authenticated(a)
        THEN Result("AuthenticationError", NoHint, cfg, f, 0, 0)
        ELSE IF is_expired(a, t) /\ Truthy(a.refresh_token)
        THEN [r EXCEPT !.err = NoError, !.hint = NoHint]
        ELSE Result(NoError, NoHint, cfg, f, 0, 0)

ensure_authenticated(cfg, slot, f, e, resp, t) ==
    LET a == SlotAuth(cfg, slot)
    IN  IF ~is_authenticated(a)
        THEN Result("AuthenticationError", NoHint, cfg, f, 0, 0)
        ELSE IF is_expired(a, t) /\ Truthy(a.refresh_token)
        THEN refresh_token(cfg, slot, f, e, resp)
        ELSE Result(NoError, NoHint, cfg, f, 0, 0)

handle_unauthorized_retrying(cfg, slot, f, e, resp) ==
    LET a == SlotAuth(cfg, slot)
        r == refresh_token(cfg, slot, f, e, resp)
        again == refresh_token(r.cfg, slot, r.file, e, resp)
    IN  IF Truthy(a.refresh_token)
        THEN IF r.err = NoError THEN r
             ELSE IF again.err = NoError
             THEN [again EXCEPT !.refreshCalls = 2, !.exchanges = r.exchanges + @]
             ELSE Result("AuthenticationError", LoginHint, again.cfg, again.file,
                         2, r.exchanges + again.exchanges)
        ELSE Result("AuthenticationError", LoginHint, cfg, f, 0, 0)

handle_unauthorized(cfg, slot, f, e, resp) ==
    LET a == SlotAuth(cfg, slot)
        r == refresh_token(cfg, slot, f, e, resp)
    IN  IF Truthy(a.refresh_token)
        THEN IF r.err = NoError THEN r
             ELSE Result("AuthenticationError", LoginHint, r.cfg, r.file,
                         r.refreshCalls, r.exchanges)
        ELSE Result("AuthenticationError", LoginHint, cfg, f, 0, 0)

-----------------------------------------------------------------------------
(* auth.py: refresh_access_token; commands/auth.py: refresh, status *)

ResponseKeys == {"access_token", "refresh_token", "expires_at"}

\* refresh_access_token returns an AuthResult only from a complete answer
RefreshOk(resp) == resp.status = "ok" /\ ResponseKeys \subseteq resp.keys

\* the `auth refresh` command; it ends with typer.Exit(code), err names the
\* message it printed
auth_refresh(f, e, resp) ==
    LET cfg == Load(f, e)
        creds == get_client_credentials(f, e)
        new == [cfg EXCEPT !.auth.access_token = resp.access_token,
                           !.auth.refresh_token = resp.refresh_token,
                           !.auth.expires_at = resp.expires_at]
    IN  IF ~Truthy(cfg.auth.refresh_token)
        THEN Result("No refresh token available", NoHint, cfg, f, 0, 0)
        ELSE IF ~Truthy(creds.client_id) \/ ~Truthy(creds.client_secret)
        THEN Result("environment variables required", NoHint, cfg, f, 0, 0)
        ELSE IF ~RefreshOk(resp)
        THEN Result("Token refresh failed", NoHint, cfg, f, 1, 1)
        ELSE Result(NoError, NoHint, new, save(new), 1, 1)

auth_refresh_exit(err) ==
    CASE err = NoError -> 0
      [] err = "Token refresh failed" -> 1
      [] OTHER -> 2

-----------------------------------------------------------------------------
(* Inputs *)

ProfileOpts == {None, "work"}
Clock == 0 .. MaxTime

FileClients == {<<None, None>>, <<"67890", "fsec">>, <<"abc", "fsec">>,
                <<"67890", None>>}

\* a record that was never logged in has no athlete_id and no scopes
FileAuths ==
    {AuthConfig(None, r, x, NoInt, <<>>) :
        r \in {None, "r0"}, x \in {NoInt} \cup (1 .. MaxExpiry)} \cup
    {AuthConfig("a0", r, x, id, <<"read", "activity:read">>) :
        r \in {None, "r0"}, x \in {NoInt} \cup (1 .. MaxExpiry), id \in {NoInt, 7}}

ProfileAuths == {AuthConfig("p0", "pr0", 1, 9, <<>>),
                 AuthConfig("p0", None, NoInt, NoInt, <<>>)}

FileProfiles == {NoProfiles} \cup {[n \in {"work"} |-> p] : p \in ProfileAuths}

Files ==
    {NoFile} \cup
    {[exists |-> TRUE, malformed |-> FALSE,
      data |-> Toml(c[1], c[2], a, DefaultsConfig, p)] :
        c \in FileClients, a \in FileAuths, p \in FileProfiles}

Env(a, r, id, sec) ==
    [STRAVA_ACCESS_TOKEN |-> a, STRAVA_REFRESH_TOKEN |-> r,
     STRAVA_CLIENT_ID |-> id, STRAVA_CLIENT_SECRET |-> sec]

\* the client credentials are exported together or not at all
Envs ==
    {Env(a, r, c[1], c[2]) :
        a \in {None, "ea"}, r \in {None, "er"},
        c \in {<<None, None>>, <<"12345", "esec">>}}

Responses ==
    {Response("error", {}, None, None, NoInt)} \cup
    {Response("ok", K, "a1", "r1", MaxTime + 1) :
        K \in {ResponseKeys} \cup {ResponseKeys \ {k} : k \in ResponseKeys}}

-----------------------------------------------------------------------------
(* One CLI invocation, or one call on a client built from the loaded config, *)
(* is one step.  last records it.                                           *)

\* is_expired reads the clock only when expires_at is set
ClockRead(a, t) == IF a.expires_at = NoInt THEN 0 ELSE t

\* before is the config file as the invocation found it
Last(op, name, slot, t, resp, loaded, r, exit, issued) ==
    [op |-> op, profile |-> name, slot |-> slot, at |-> t,
     resp |-> IF r.exchanges > 0 THEN resp ELSE NoResponse,
     loaded |-> loaded,
     err |-> r.err, hint |-> r.hint, exit |-> exit, cfg |-> r.cfg,
     refreshCalls |-> r.refreshCalls, exchanges |-> r.exchanges,
     apiIssued |-> issued, expired |-> is_expired(SlotAuth(loaded, slot), t),
     creds |-> [client_id |-> None, client_secret |-> None], ret |-> EmptyAuth,
     authenticated |-> is_authenticated(SlotAuth(loaded, slot)),
     revoked |-> None, caught |-> FALSE, swallowed |-> {},
     force |-> FALSE, answer |-> None, configPath |-> FALSE,
     before |-> file]

NoLast ==
    [op |-> "none", profile |-> None, slot |-> "auth", at |-> 0,
     resp |-> NoResponse, loaded |-> EmptyConfig,
     err |-> NoError, hint |-> NoHint, exit |-> 0, cfg |-> EmptyConfig,
     refreshCalls |-> 0, exchanges |-> 0, apiIssued |-> FALSE, expired |-> TRUE,
     creds |-> [client_id |-> None, client_secret |-> None], ret |-> EmptyAuth,
     authenticated |-> FALSE, revoked |-> None, caught |-> FALSE,
     swallowed |-> {}, force |-> FALSE, answer |-> None, configPath |-> FALSE,
     before |-> NoFile]

\* Config.load(cli.state.config_path) with --config / STRAVA_CONFIG given:
\* the path is a str, and str has no exists(): AttributeError, which no
\* handler of the wrapper catches
Crashed(op) ==
    [Last(op, None, "auth", 0, NoResponse, EmptyConfig,
          Result("AttributeError", NoHint, EmptyConfig, file, 0, 0), 1, FALSE)
     EXCEPT !.configPath = TRUE]

LoginIdle ==
    <<saver, handler, expected, req, fg, worker, serverOpen, login, linger>>

\* a command wrapped by with_client / authenticated_command whose body calls
\* one client method: ensure_authenticated, then the API operation
ApiCommand(name, resp, t) ==
    /\ fg = "idle"
    /\ \E cfg \in {Load(file, env)} :
       \E slot \in {Slot(cfg, name)} :
       \E r \in {ensure_authenticated(cfg, slot, file, env, resp, t)} :
          /\ last' = Last("api", name, slot, ClockRead(SlotAuth(cfg, slot), t),
                          resp, cfg, r, exit_code(r.err), r.err = NoError)
          /\ file' = r.file
          /\ perm' = IF Saved(r) THEN AfterSave(perm) ELSE perm
    /\ UNCHANGED <<env, LoginIdle>>

\* the same command run with --config PATH (or STRAVA_CONFIG)
ApiCommandWithConfigPath ==
    /\ fg = "idle"
    /\ last' = Crashed("api")
    /\ UNCHANGED <<file, perm, env, LoginIdle>>

\* StravaClient(config, profile).handle_unauthorized(exc)
HandleUnauthorized(name, resp) ==
    /\ fg = "idle"
    /\ \E cfg \in {Load(file, env)} :
       \E slot \in {Slot(cfg, name)} :
       \E r \in {handle_unauthorized(cfg, slot, file, env, resp)} :
          /\ last' = Last("handle_unauthorized", name, slot, 0, resp, cfg, r,
                          exit_code(r.err), FALSE)
          /\ file' = r.file
          /\ perm' = IF Saved(r) THEN AfterSave(perm) ELSE perm
    /\ UNCHANGED <<env, LoginIdle>>

\* strava auth refresh
AuthRefresh(resp) ==
    /\ fg = "idle"
    /\ \E r \in {auth_refresh(file, env, resp)} :
          /\ last' = Last("auth_refresh", None, "auth", 0, resp, Load(file, env), r,
                          auth_refresh_exit(r.err), FALSE)
          /\ file' = r.file
          /\ perm' = IF Saved(r) THEN AfterSave(perm) ELSE perm
    /\ UNCHANGED <<env, LoginIdle>>

\* Config.load().get_profile(name).is_expired() at clock reading t
IsExpired(name, t) ==
    /\ fg = "idle"
    /\ \E cfg \in {Load(file, env)} :
          last' = Last("is_expired", name, Slot(cfg, name),
                       ClockRead(get_profile(cfg, name), t), NoResponse, cfg,
                       Result(NoError, NoHint, cfg, file, 0, 0), 0, FALSE)
    /\ UNCHANGED <<file, perm, env, LoginIdle>>

\* Config.load() alone: what every command starts with
\* the exception Config.load raises leaves the command uncaught (the
\* wrappers catch StravaCLIError only): a traceback and exit code 1
LoadRaised(op, err) ==
    Last(op, None, "auth", 0, NoResponse, EmptyConfig,
         Result(err, NoHint, EmptyConfig, file, 0, 0), exit_code(err), FALSE)

LoadConfig ==
    /\ fg = "idle"
    /\ \E err \in {load_error(file)} :
       \E cfg \in {IF err = NoError THEN Load(file, env) ELSE EmptyConfig} :
          last' = IF err = NoError
                  THEN Last("load", None, "auth", 0, NoResponse, cfg,
                            Result(NoError, NoHint, cfg, file, 0, 0), 0, FALSE)
                  ELSE LoadRaised("load_raised", err)
    /\ UNCHANGED <<file, perm, env, LoginIdle>>

\* get_client_credentials(), as refresh_token and `auth status` call it
GetClientCredentials ==
    /\ fg = "idle"
    /\ \E err \in {IF Truthy(env.STRAVA_CLIENT_ID) /\ Truthy(env.STRAVA_CLIENT_SECRET)
                    THEN NoError ELSE load_error(file)} :
       \E cfg \in {IF load_error(file) = NoError THEN Load(file, env)
                    ELSE EmptyConfig} :
          last' = IF err = NoError
                  THEN [Last("credentials", None, "auth", 0, NoResponse, cfg,
                             Result(NoError, NoHint, cfg, file, 0, 0), 0, FALSE)
                        EXCEPT !.creds = get_client_credentials(file, env)]
                  ELSE LoadRaised("credentials_raised", err)
    /\ UNCHANGED <<file, perm, env, LoginIdle>>

\* what the upstream API answers to an operation: stravalib raises these,
\* and they are no StravaCLIError
UpstreamErrors == {"AccessUnauthorized", "RateLimitExceeded", "Fault"}

\* except StravaCLIError as e: print the message, typer.Exit(e.exit_code)
Caught(err) == err \in StravaCLIErrors

\* refresh_token when the config file may not be written: self.config.save()
\* raises inside the try, after the three assignments, and the except clause
\* makes it a TokenRefreshError
SaveDenied(r, f) ==
    IF Saved(r)
    THEN [r EXCEPT !.err = "TokenRefreshError", !.hint = LoginHint, !.file = f]
    ELSE r

\* the modes after a call that reached self.config.save() under modes p:
\* a save that write_text ends has still made and tightened the directory
SaveModes(r, p) ==
    IF ~Saved(r) THEN p
    ELSE IF MayWrite(p) THEN AfterSave(p)
    ELSE chmod_dir(mkdir(p))

\* a command wrapped by with_client / authenticated_command: Config.load,
\* get_client, then the body, which calls one client method
\* (ensure_authenticated, then the API operation answering up) and may
\* itself raise
WrappedCommand(name, resp, t, up) ==
    /\ fg = "idle"
    /\ IF load_error(file) # NoError
       THEN /\ last' = LoadRaised("wrapped", load_error(file))
            /\ UNCHANGED <<file, perm>>
       ELSE \E cfg \in {Load(file, env)} :
            \E slot \in {Slot(cfg, name)} :
            \E ens \in {ensure_authenticated(cfg, slot, file, env, resp, t)} :
            \E r \in {IF MayWrite(perm) THEN ens ELSE SaveDenied(ens, file)} :
            \E err \in {IF r.err # NoError THEN r.err ELSE up} :
               /\ last' = [Last("wrapped", name, slot,
                                ClockRead(SlotAuth(cfg, slot), t), resp, cfg,
                                [r EXCEPT !.err = err], exit_code(err),
                                r.err = NoError)
                           EXCEPT !.caught = Caught(err)]
               /\ file' = r.file
               /\ perm' = SaveModes(ens, perm)
    /\ UNCHANGED <<env, LoginIdle>>

ContextSteps == {"stats", "clubs", "activities"}

\* strava context: Config.load and get_client inside a try, then
\* client.get_athlete() outside any try, then the three sub-steps, each
\* inside `try: ... except Exception:` that puts None or [] in the result
ContextCommand(name, resp, t, up, failed) ==
    /\ fg = "idle"
    /\ IF load_error(file) # NoError
       THEN /\ last' = LoadRaised("context", load_error(file))
            /\ UNCHANGED <<file, perm>>
       ELSE \E cfg \in {Load(file, env)} :
            \E slot \in {Slot(cfg, name)} :
            \E ens \in {ensure_authenticated(cfg, slot, file, env, resp, t)} :
            \E r \in {IF MayWrite(perm) THEN ens ELSE SaveDenied(ens, file)} :
            \E err \in {IF r.err # NoError THEN r.err ELSE up} :
               /\ last' = [Last("context", name, slot,
                                ClockRead(SlotAuth(cfg, slot), t), resp, cfg,
                                [r EXCEPT !.err = err],
                                IF err = NoError THEN 0 ELSE 1,
                                r.err = NoError)
                           EXCEPT !.swallowed = IF err = NoError THEN failed ELSE {}]
               /\ file' = r.file
               /\ perm' = SaveModes(ens, perm)
    /\ UNCHANGED <<env, LoginIdle>>

\* what the operator answers to typer.confirm: yes, no, nothing (the default
\* is no), or the end of input, which aborts the prompt
Answers == {"y", "n", "", "eof"}

delete_proceeds_unless_declined(force, answer) == force \/ answer # "n"

\* delete_activity: the body goes on to client.delete_activity
delete_proceeds(force, answer) == force \/ answer = "y"

\* strava activities delete ID [--force]: Config.load and get_client in the
\* wrapper, then the confirmation unless --force, then
\* client.delete_activity (ensure_authenticated, then the upstream delete
\* answering up); typer.Abort passes the wrapper and ends with exit code 1
DeleteActivity(name, resp, t, force, answer, up) ==
    /\ fg = "idle"
    /\ force <=> (answer = None)
    /\ IF load_error(file) # NoError
       THEN /\ last' = [LoadRaised("delete", load_error(file))
                        EXCEPT !.force = force]
            /\ UNCHANGED <<file, perm>>
       ELSE \E cfg \in {Load(file, env)} :
            \E slot \in {Slot(cfg, name)} :
            IF ~delete_proceeds(force, answer)
            THEN /\ last' = [Last("delete", name, slot, 0, resp, cfg,
                                  Result("Abort", NoHint, cfg, file, 0, 0),
                                  1, FALSE)
                             EXCEPT !.force = force, !.answer = answer]
                 /\ UNCHANGED <<file, perm>>
            ELSE \E ens \in {ensure_authenticated(cfg, slot, file, env, resp, t)} :
                 \E r \in {IF MayWrite(perm) THEN ens ELSE SaveDenied(ens, file)} :
                 \E err \in {IF r.err # NoError THEN r.err ELSE up} :
                    /\ last' = [Last("delete", name, slot,
                                     ClockRead(SlotAuth(cfg, slot), t), resp, cfg,
                                     [r EXCEPT !.err = err], exit_code(err),
                                     r.err = NoError)
                                EXCEPT !.caught = Caught(err), !.force = force,
                                       !.answer = answer]
                    /\ file' = r.file
                    /\ perm' = SaveModes(ens, perm)
    /\ UNCHANGED <<env, LoginIdle>>

auth_logout_unless_revoke_failed(f, e, revoke, ok) ==
    LET cfg == Load(f, e)
        cleared == IF revoke /\ Truthy(cfg.auth.access_token) /\ ~ok THEN cfg
                   ELSE clear_auth(cfg, None)
    IN  Result(NoError, NoHint, cleared, save(cleared), 0, 0)

\* strava auth logout [--revoke]: deauthorize answers ok or not (it never
\* raises), then clear_auth() and save()
auth_logout(f, e, revoke, ok) ==
    LET cfg == Load(f, e)
        cleared == clear_auth(cfg, None)
    IN  Result(NoError, NoHint, cleared, save(cleared), 0, 0)

\* revoked as the command reports it
Revoked(cfg, revoke, ok) ==
    IF revoke /\ Truthy(cfg.auth.access_token)
    THEN (IF ok THEN "True" ELSE "False")
    ELSE None

AuthLogout(revoke, ok) ==
    /\ fg = "idle"
    /\ IF load_error(file) # NoError
       THEN /\ last' = LoadRaised("logout", load_error(file))
            /\ UNCHANGED <<file, perm>>
       ELSE IF ~MayWrite(perm)
       THEN /\ last' = LoadRaised("logout", "PermissionError")
            /\ perm' = chmod_dir(mkdir(perm))
            /\ file' = file
       ELSE \E r \in {auth_logout(file, env, revoke, ok)} :
               /\ last' = [Last("logout", None, "auth", 0, NoResponse,
                                Load(file, env), r, 0, FALSE)
                           EXCEPT !.revoked = Revoked(Load(file, env), revoke, ok)]
               /\ file' = r.file
               /\ perm' = AfterSave(perm)
    /\ UNCHANGED <<env, LoginIdle>>

\* strava auth status: authenticated is config.auth.is_authenticated()
AuthStatus ==
    /\ fg = "idle"
    /\ last' = IF load_error(file) # NoError
               THEN LoadRaised("status", load_error(file))
               ELSE Last("status", None, "auth", 0, NoResponse, Load(file, env),
                         Result(NoError, NoHint, Load(file, env), file, 0, 0),
                         0, FALSE)
    /\ UNCHANGED <<file, perm, env, LoginIdle>>

NameOpts == {None, "", "work", "home"}

\* Config.load().get_profile(name)
GetProfile(name) ==
    /\ fg = "idle"
    /\ load_error(file) = NoError
    /\ \E cfg \in {Load(file, env)} :
          last' = [Last("get_profile", name, "auth", 0, NoResponse, cfg,
                        Result(NoError, NoHint, cfg, file, 0, 0), 0, FALSE)
                   EXCEPT !.ret = get_profile(cfg, name)]
    /\ UNCHANGED <<file, perm, env, LoginIdle>>

\* Config.load().clear_auth(name)
ClearAuth(name) ==
    /\ fg = "idle"
    /\ load_error(file) = NoError
    /\ \E cfg \in {Load(file, env)} :
          last' = Last("clear_auth", name, "auth", 0, NoResponse, cfg,
                       Result(NoError, NoHint, clear_auth(cfg, name), file, 0, 0),
                       0, FALSE)
    /\ UNCHANGED <<file, perm, env, LoginIdle>>

-----------------------------------------------------------------------------
(* auth.py: the OAuth flow.  The foreground (interactive_login, then the    *)
(* login command) and the listener thread each take one step at a time; the *)
(* class attributes of OAuthCallbackHandler are what they share.            *)

NoHandlerState == [auth_code |-> None, state |-> None, error |-> None]

NoRequest == [error |-> Absent, code |-> Absent, state |-> Absent]

NoLogin ==
    [outcome |-> "none", reported |-> None, exchanges |-> 0, code |-> None,
     joined |-> FALSE, before |-> NoFile]

\* no thread of an earlier flow; attempts counts the flows the process began
NoLinger ==
    [pc |-> "none", req |-> NoRequest, token |-> None, open |-> FALSE,
     attempts |-> 0]

\* urllib.parse.parse_qs without keep_blank_values: a parameter with an
\* empty value is left out of the mapping
parse_qs(q) ==
    [k \in DOMAIN q |-> IF q[k] = "" THEN Absent ELSE q[k]]

do_GET_branch_code_first(params) ==
    IF params.code # Absent THEN "code"
    ELSE IF params.error # Absent THEN "error"
    ELSE "neither"

\* do_GET: which of the two captures the request leads to
do_GET_branch(params) ==
    IF params.error # Absent THEN "error"
    ELSE IF params.code # Absent THEN "code"
    ELSE "neither"

state_matches_or_missing(h, exp) == h.state = exp \/ h.state = None

\* interactive_login: OAuthCallbackHandler.state != state fails the flow
state_matches(h, exp) == h.state = exp

Lifecycle == <<last, saver, linger>>

\* interactive_login up to the listener's creation: credentials from the
\* environment or the config, else from the prompt (saved at once)
LoginStart(prompted) ==
    /\ fg = "idle"
    /\ \E cfg \in {Load(file, env)} :
       \E creds \in {get_client_credentials(file, env)} :
       \E begun \in {[NoLogin EXCEPT !.before = file]} :
          IF Truthy(creds.client_id) /\ Truthy(creds.client_secret)
          THEN /\ prompted = None
               /\ fg' = "server"
               /\ login' = begun
               /\ UNCHANGED <<file, perm>>
          ELSE IF prompted = None
          THEN /\ fg' = "done"
               /\ login' = [begun EXCEPT !.outcome = "cancelled"]
               /\ UNCHANGED <<file, perm>>
          ELSE /\ fg' = "server"
               /\ login' = begun
               /\ perm' = AfterSave(perm)
               /\ file' = save([cfg EXCEPT !.client_id = prompted[1],
                                           !.client_secret = prompted[2]])
    /\ req' = NoRequest
    /\ UNCHANGED <<env, handler, expected, worker, serverOpen, Lifecycle>>

\* secrets.token_urlsafe(16), then start_callback_server: the handler's
\* class attributes are reset and the socket is bound.  128 random bits: the
\* token differs from those of the flows before it and from every value a
\* request has carried so far
StartCallbackServer(token) ==
    /\ fg = "server"
    /\ token \notin {expected, linger.token, linger.req.state}
    /\ expected' = token
    /\ handler' = NoHandlerState
    /\ serverOpen' = TRUE
    /\ fg' = "thread"
    /\ UNCHANGED <<file, perm, env, req, worker, login, Lifecycle>>

\* webbrowser.open, thread.start()
ThreadStart ==
    /\ fg = "thread"
    /\ worker' = "listening"
    /\ fg' = "join"
    /\ UNCHANGED <<file, perm, env, handler, expected, req, serverOpen, login, Lifecycle>>

\* thread.join(timeout=120) returns because the thread ended
JoinFinished ==
    /\ fg = "join"
    /\ worker = "done"
    /\ fg' = "close"
    /\ login' = [login EXCEPT !.joined = TRUE]
    /\ UNCHANGED <<file, perm, env, handler, expected, req, worker, serverOpen, Lifecycle>>

\* thread.join(timeout=120) returns because the 120 seconds are over, the
\* thread still alive
JoinTimeout ==
    /\ fg = "join"
    /\ worker # "done"
    /\ fg' = "close"
    /\ login' = [login EXCEPT !.joined = FALSE]
    /\ UNCHANGED <<file, perm, env, handler, expected, req, worker, serverOpen, Lifecycle>>

\* server.server_close()
ServerClose ==
    /\ fg = "close"
    /\ serverOpen' = FALSE
    /\ fg' = "check_error"
    /\ UNCHANGED <<file, perm, env, handler, expected, req, worker, login, Lifecycle>>

\* if OAuthCallbackHandler.error: report it, return None
CheckError ==
    /\ fg = "check_error"
    /\ IF Truthy(handler.error)
       THEN /\ login' = [login EXCEPT !.outcome = "provider_error",
                                      !.reported = handler.error]
            /\ fg' = "done"
       ELSE /\ fg' = "check_code"
            /\ login' = login
    /\ UNCHANGED <<file, perm, env, handler, expected, req, worker, serverOpen, Lifecycle>>

\* if not OAuthCallbackHandler.auth_code: timeout, return None
CheckCode ==
    /\ fg = "check_code"
    /\ IF ~Truthy(handler.auth_code)
       THEN /\ login' = [login EXCEPT !.outcome = "timeout"]
            /\ fg' = "done"
       ELSE /\ fg' = "check_state"
            /\ login' = login
    /\ UNCHANGED <<file, perm, env, handler, expected, req, worker, serverOpen, Lifecycle>>

\* if OAuthCallbackHandler.state != state: state mismatch, return None
CheckState ==
    /\ fg = "check_state"
    /\ IF ~state_matches(handler, expected)
       THEN /\ login' = [login EXCEPT !.outcome = "state_mismatch"]
            /\ fg' = "done"
       ELSE /\ fg' = "exchange"
            /\ login' = login
    /\ UNCHANGED <<file, perm, env, handler, expected, req, worker, serverOpen, Lifecycle>>

\* exchange_code_for_token(client_id, client_secret, auth_code): an
\* AuthResult, or any exception, which interactive_login turns into None
ExchangeCode(ok) ==
    /\ fg = "exchange"
    /\ login' = [login EXCEPT !.exchanges = @ + 1,
                              !.code = handler.auth_code,
                              !.outcome = IF ok THEN "exchanged"
                                          ELSE "exchange_failed"]
    /\ fg' = IF ok THEN "save" ELSE "done"
    /\ UNCHANGED <<file, perm, env, handler, expected, req, worker, serverOpen, Lifecycle>>

\* the AuthResult of a code exchange
LoginResult == AuthConfig("la", "lr", MaxTime + 1, 7, <<"read", "activity:read">>)

\* the login command: Config.load(), the five fields of the result, save
LoginSave ==
    /\ fg = "save"
    /\ file' = save([Load(file, env) EXCEPT !.auth = LoginResult])
    /\ perm' = AfterSave(perm)
    /\ login' = [login EXCEPT !.outcome = "success"]
    /\ fg' = "done"
    /\ UNCHANGED <<env, handler, expected, req, worker, serverOpen, Lifecycle>>

\* server.handle_request(): a request is accepted
Accept(q) ==
    /\ worker = "listening"
    /\ serverOpen
    /\ req' = q
    /\ worker' = "do_GET"
    /\ UNCHANGED <<file, perm, env, handler, expected, fg, serverOpen, login, Lifecycle>>

\* server.handle_request(): no request within server.timeout, or the socket
\* was closed under it
ListenEnds ==
    /\ worker = "listening"
    /\ worker' = "done"
    /\ UNCHANGED <<file, perm, env, handler, expected, req, fg, serverOpen, login, Lifecycle>>

\* do_GET: the error, or the code (the state follows in the next statement)
Capture ==
    /\ worker = "do_GET"
    /\ \E params \in {parse_qs(req)} :
          CASE do_GET_branch(params) = "error" ->
                  /\ handler' = [handler EXCEPT !.error = params.error]
                  /\ worker' = "respond"
            [] do_GET_branch(params) = "code" ->
                  /\ handler' = [handler EXCEPT !.auth_code = params.code]
                  /\ worker' = "state"
            [] OTHER ->
                  /\ handler' = handler
                  /\ worker' = "respond"
    /\ UNCHANGED <<file, perm, env, expected, req, fg, serverOpen, login, Lifecycle>>

\* do_GET: OAuthCallbackHandler.state = params.get("state", [None])[0]
CaptureState ==
    /\ worker = "state"
    /\ \E params \in {parse_qs(req)} :
          handler' = [handler EXCEPT
                         !.state = IF params.state = Absent THEN None
                                   ELSE params.state]
    /\ worker' = "respond"
    /\ UNCHANGED <<file, perm, env, expected, req, fg, serverOpen, login, Lifecycle>>

Respond_serve_forever ==
    /\ worker = "respond"
    /\ worker' = "listening"
    /\ UNCHANGED <<file, perm, env, handler, expected, req, fg, serverOpen, login, Lifecycle>>

\* do_GET: the HTML page is sent; handle_request returns
Respond ==
    /\ worker = "respond"
    /\ worker' = "done"
    /\ UNCHANGED <<file, perm, env, handler, expected, req, fg, serverOpen, login, Lifecycle>>

\* the process ends once the foreground and the thread have: the next
\* invocation starts with the class attributes as the class body sets them
\* (expected, req and login keep what the ended run left, until the next
\* run replaces them)
ProcessExit ==
    /\ fg = "done"
    /\ worker \in {"none", "done"}
    /\ linger.pc \in {"none", "done"}
    /\ fg' = "idle"
    /\ worker' = "none"
    /\ linger' = NoLinger
    /\ handler' = NoHandlerState
    /\ serverOpen' = FALSE
    /\ UNCHANGED <<file, perm, env, expected, req, login, last, saver>>

\* an exception the flow does not catch is raised between the listener's
\* creation and server_close(): KeyboardInterrupt (Ctrl-C) during
\* webbrowser.open or during thread.join, or an error of webbrowser.open.
\* It leaves interactive_login at once; server_close() is not reached
Interrupt ==
    /\ fg \in {"thread", "join"}
    /\ fg' = "done"
    /\ login' = [login EXCEPT !.outcome = "interrupted"]
    /\ UNCHANGED <<file, perm, env, handler, expected, req, worker, serverOpen, Lifecycle>>

\* the flows one process begins
MaxAttempts == 2

\* interactive_login is called again in the same process (a caller that
\* retries, on a port that is free): nothing waits for the thread of the
\* flow before, which goes on running if it has not ended, its socket open
\* if server_close() was not reached.  The class attributes stay as they are
\* until start_callback_server resets them
LoginAgain ==
    /\ fg = "done"
    /\ linger.attempts + 1 < MaxAttempts
    /\ worker \in {"none", "done"} \/ linger.pc \in {"none", "done"}
    /\ fg' = "idle"
    /\ worker' = "none"
    /\ serverOpen' = FALSE
    /\ linger' = IF worker \in {"none", "done"}
                 THEN [linger EXCEPT !.attempts = @ + 1]
                 ELSE [pc |-> worker, req |-> req, token |-> expected,
                       open |-> serverOpen, attempts |-> linger.attempts + 1]
    /\ UNCHANGED <<file, perm, env, handler, expected, req, login, last, saver>>

\* the steps of the thread left alive: those of Accept, ListenEnds, Capture,
\* CaptureState and Respond, on its own request (which cannot carry the
\* token of the flow that began after it: nobody has seen that token)
LingerAccept(q) ==
    /\ linger.pc = "listening"
    /\ linger.open
    /\ q.state # expected \/ fg \in {"idle", "server"}
    /\ linger' = [linger EXCEPT !.pc = "do_GET", !.req = q]
    /\ UNCHANGED <<file, perm, env, handler, expected, req, fg, worker, serverOpen, login, last, saver>>

LingerListenEnds ==
    /\ linger.pc = "listening"
    /\ linger' = [linger EXCEPT !.pc = "done", !.open = FALSE]
    /\ UNCHANGED <<file, perm, env, handler, expected, req, fg, worker, serverOpen, login, last, saver>>

LingerCapture ==
    /\ linger.pc = "do_GET"
    /\ \E params \in {parse_qs(linger.req)} :
          CASE do_GET_branch(params) = "error" ->
                  /\ handler' = [handler EXCEPT !.error = params.error]
                  /\ linger' = [linger EXCEPT !.pc = "respond"]
            [] do_GET_branch(params) = "code" ->
                  /\ handler' = [handler EXCEPT !.auth_code = params.code]
                  /\ linger' = [linger EXCEPT !.pc = "state"]
            [] OTHER ->
                  /\ handler' = handler
                  /\ linger' = [linger EXCEPT !.pc = "respond"]
    /\ UNCHANGED <<file, perm, env, expected, req, fg, worker, serverOpen, login, last, saver>>

LingerCaptureState ==
    /\ linger.pc = "state"
    /\ \E params \in {parse_qs(linger.req)} :
          handler' = [handler EXCEPT
                         !.state = IF params.state = Absent THEN None
                                   ELSE params.state]
    /\ linger' = [linger EXCEPT !.pc = "respond"]
    /\ UNCHANGED <<file, perm, env, expected, req, fg, worker, serverOpen, login, last, saver>>

LingerRespond ==
    /\ linger.pc = "respond"
    /\ linger' = [linger EXCEPT !.pc = "done", !.open = FALSE]
    /\ UNCHANGED <<file, perm, env, expected, handler, req, fg, worker, serverOpen, login, last, saver>>

\* the modes a file of the model starts with: 0o755 and 0o644 under umask
\* 0o022, nothing where there is no file
InitPerm(f) == IF f.exists THEN Perm(493, 420, 18) ELSE Perm(NoInt, NoInt, 18)

NoSave ==
    [pc |-> "idle", doc |-> EmptyConfig, before |-> Perm(NoInt, NoInt, 0),
     old |-> NoFile]

-----------------------------------------------------------------------------
(* Config.save statement by statement, and the load that follows it *)

NoEnv == [STRAVA_ACCESS_TOKEN |-> None, STRAVA_REFRESH_TOKEN |-> None,
          STRAVA_CLIENT_ID |-> None, STRAVA_CLIENT_SECRET |-> None]

SaveIdle ==
    <<env, handler, expected, req, fg, worker, serverOpen, login, linger>>

\* config.save() is called on a document
SaveBegin(doc) ==
    /\ saver.pc = "idle"
    /\ saver' = [pc |-> "mkdir", doc |-> doc, before |-> perm, old |-> file]
    /\ UNCHANGED <<file, perm, last, SaveIdle>>

SaveMkdir ==
    /\ saver.pc = "mkdir"
    /\ perm' = mkdir(perm)
    /\ saver' = [saver EXCEPT !.pc = "chmod_dir"]
    /\ UNCHANGED <<file, last, SaveIdle>>

SaveChmodDir ==
    /\ saver.pc = "chmod_dir"
    /\ perm' = chmod_dir(perm)
    /\ saver' = [saver EXCEPT !.pc = "write_text"]
    /\ UNCHANGED <<file, last, SaveIdle>>

\* open(path, "w") leaves a file of length zero, which parses as an empty
\* document
Truncated == [exists |-> TRUE, malformed |-> FALSE, data |-> EmptyToml]

\* write_text, its first half: the file is opened for writing, which creates
\* it or cuts it to nothing
SaveWriteText ==
    /\ saver.pc = "write_text"
    /\ IF MayWrite(perm)
       THEN /\ file' = Truncated
            /\ perm' = write_text(perm)
            /\ saver' = [saver EXCEPT !.pc = "write"]
       ELSE /\ saver' = [saver EXCEPT !.pc = "raised"]
            /\ UNCHANGED <<file, perm>>
    /\ UNCHANGED <<last, SaveIdle>>

\* write_text, its second half: the joined lines are written and the file
\* is closed
SaveWriteData ==
    /\ saver.pc = "write"
    /\ file' = save(saver.doc)
    /\ saver' = [saver EXCEPT !.pc = "chmod_file"]
    /\ UNCHANGED <<perm, last, SaveIdle>>

SaveChmodFile ==
    /\ saver.pc = "chmod_file"
    /\ perm' = chmod_file(perm)
    /\ saver' = [saver EXCEPT !.pc = "done"]
    /\ UNCHANGED <<file, last, SaveIdle>>

\* the PermissionError of write_text ends the invocation
SaveRaised ==
    /\ saver.pc = "raised"
    /\ saver' = [saver EXCEPT !.pc = "idle"]
    /\ last' = [NoLast EXCEPT !.op = "save", !.err = "PermissionError", !.exit = 1]
    /\ UNCHANGED <<file, perm, SaveIdle>>

\* Config.load() of what the save wrote
Reload ==
    /\ saver.pc = "done"
    /\ saver' = [saver EXCEPT !.pc = "idle"]
    /\ \E err \in {load_error(file)} :
       \E cfg \in {IF err = NoError THEN Load(file, env) ELSE EmptyConfig} :
          last' = Last("reload", None, "auth", 0, NoResponse, cfg,
                       Result(err, NoHint, cfg, file, 0, 0),
                       IF err = NoError THEN 0 ELSE 1, FALSE)
    /\ UNCHANGED <<file, perm, SaveIdle>>

\* what a Config.load() of file f gives: the exception and the document
Outcome(f, e) ==
    <<load_error(f), IF load_error(f) = NoError THEN Load(f, e) ELSE EmptyConfig>>

\* Config.load() in another invocation, at any moment of the save
ConcurrentLoad ==
    /\ \E o \in {Outcome(file, env)} :
          last' = Last("concurrent_load", None, "auth", 0, NoResponse, o[2],
                       Result(o[1], NoHint, o[2], file, 0, 0),
                       IF o[1] = NoError THEN 0 ELSE 1, FALSE)
    /\ UNCHANGED <<file, perm, saver, SaveIdle>>

LoginInit ==
    /\ saver = NoSave
    /\ handler = NoHandlerState
    /\ expected = None
    /\ req = NoRequest
    /\ fg = "idle"
    /\ worker = "none"
    /\ serverOpen = FALSE
    /\ login = NoLogin
    /\ linger = NoLinger

Init ==
    /\ file \in Files
    /\ env \in Envs
    /\ perm = InitPerm(file)
    /\ last = NoLast
    /\ LoginInit

Next ==
    \/ \E n \in ProfileOpts, resp \in Responses, t \in Clock :
          ApiCommand(n, resp, t)
    \/ ApiCommandWithConfigPath
    \/ \E n \in ProfileOpts, resp \in Responses : HandleUnauthorized(n, resp)
    \/ \E resp \in Responses : AuthRefresh(resp)
    \/ \E n \in ProfileOpts, t \in Clock : IsExpired(n, t)

Spec == Init /\ [][Next]_vars

\* Config.load and get_client_credentials over every combination of unset,
\* empty and set environment variables
EnvValues(v) == {None, "", v}

AllEnvs ==
    {Env(a, r, id, sec) :
        a \in EnvValues("ea"), r \in EnvValues("er"),
        id \in EnvValues("12345"), sec \in EnvValues("esec")}

InitLoad ==
    /\ file \in Files \cup {MalformedFile}
    /\ env \in AllEnvs
    /\ perm = InitPerm(file)
    /\ last = NoLast
    /\ LoginInit

NextLoad ==
    \/ LoadConfig
    \/ GetClientCredentials
    \/ \E name \in NameOpts : GetProfile(name)
    \/ \E name \in NameOpts : ClearAuth(name)

SpecLoad == InitLoad /\ [][NextLoad]_vars

\* Commands at their boundary
CliFiles ==
    {NoFile, MalformedFile} \cup
    {[exists |-> TRUE, malformed |-> FALSE,
      data |-> Toml("67890", "fsec", a, DefaultsConfig, p)] :
        a \in {EmptyAuth,
               AuthConfig("a0", None, NoInt, 7, <<"read">>),
               AuthConfig("a0", "r0", 1, 7, <<"read">>)},
        p \in FileProfiles}

CliEnvs ==
    {NoEnv, Env("ea", None, None, None), Env("ea", "er", "12345", "esec")}

CliPerms(f) ==
    IF f.exists THEN {InitPerm(f), Perm(493, 292, 18)} ELSE {InitPerm(f)}

BodyOutcomes == {NoError} \cup StravaCLIErrors \cup UpstreamErrors

InitCli ==
    /\ file \in CliFiles
    /\ env \in CliEnvs
    /\ perm \in CliPerms(file)
    /\ last = NoLast
    /\ LoginInit

\* the token endpoint fails or answers in full
CliResponses ==
    {Response("error", {}, None, None, NoInt),
     Response("ok", ResponseKeys, "a1", "r1", MaxTime + 1)}

CliClock == {0, MaxTime}

\* the sub-steps of `context` that fail: none, one, all
FailedSteps == {{}, {"stats"}, ContextSteps}

NextCli ==
    \/ \E n \in ProfileOpts, resp \in CliResponses, t \in CliClock,
          up \in BodyOutcomes :
          WrappedCommand(n, resp, t, up)
    \/ \E n \in ProfileOpts, resp \in CliResponses, t \in CliClock,
          up \in {NoError} \cup UpstreamErrors, failed \in FailedSteps :
          ContextCommand(n, resp, t, up, failed)
    \/ \E revoke \in BOOLEAN, ok \in BOOLEAN : AuthLogout(revoke, ok)
    \/ AuthStatus
    \/ \E n \in ProfileOpts, resp \in CliResponses, t \in CliClock,
          force \in BOOLEAN, answer \in Answers \cup {None},
          up \in {NoError, "Fault"} :
          DeleteActivity(n, resp, t, force, answer, up)

SpecCli == InitCli /\ [][NextCli]_vars

\* Config.save and the round trip through the file
Umasks == {0, 18, 63}

DirModes == {S_IRWXU, 493, 511}

FileModes == {S_IRUSR + S_IWUSR, 420, 438, 292}

SaveFiles ==
    {NoFile,
     [exists |-> TRUE, malformed |-> FALSE, data |-> EmptyToml],
     [exists |-> TRUE, malformed |-> FALSE,
      data |-> Toml("67890", "fsec", AuthConfig("a0", "r0", 1, 7, <<"read">>),
                    DefaultsConfig, NoProfiles)]}

Perms(f) ==
    IF f.exists
    THEN {Perm(d, m, u) : d \in DirModes, m \in FileModes, u \in Umasks}
    ELSE {Perm(d, NoInt, u) : d \in {NoInt} \cup DirModes, u \in Umasks}

SaveDocs ==
    {EmptyConfig,
     Config(AuthConfig("a1", "r1", MaxTime + 1, 7, <<"read", "activity:read">>),
            DefaultsConfig, NoProfiles, "12345", "esec"),
     Config(AuthConfig("a1", "", NoInt, NoInt, <<>>),
            [format |-> "csv", limit |-> 10], NoProfiles, "", None),
     Config(EmptyAuth, DefaultsConfig,
            [n \in {"work"} |-> AuthConfig("p0", "pr0", 1, 9, <<>>)], None, None),
     Config(EmptyAuth, DefaultsConfig,
            [n \in {"work"} |-> AuthConfig("p0", "pr0", 1, 9, <<"read">>)],
            None, None),
     Config(AuthConfig("to\"ken", None, NoInt, NoInt, <<>>),
            DefaultsConfig, NoProfiles, None, None),
     Config(EmptyAuth, DefaultsConfig,
            [n \in {"my profile"} |-> AuthConfig("p0", None, NoInt, NoInt, <<>>)],
            None, None)}

InitSave ==
    /\ file \in SaveFiles
    /\ perm \in Perms(file)
    /\ env = NoEnv
    /\ last = NoLast
    /\ LoginInit

NextSave ==
    \/ \E doc \in SaveDocs : SaveBegin(doc)
    \/ SaveMkdir
    \/ SaveChmodDir
    \/ SaveWriteText
    \/ SaveWriteData
    \/ SaveChmodFile
    \/ SaveRaised
    \/ Reload
    \/ ConcurrentLoad

SpecSave == InitSave /\ [][NextSave]_vars

\* The login flow
StateTokens == {"s1", "s2"}

Requests ==
    [error : {Absent, "", "access_denied"}, code : {Absent, "", "c1"},
     state : {Absent, ""} \cup StateTokens]

Prompted == {None, <<"12345", "psec">>}

LoginFiles ==
    {NoFile,
     [exists |-> TRUE, malformed |-> FALSE,
      data |-> Toml("67890", "fsec", AuthConfig("a0", "r0", 1, 7, <<"read">>),
                    DefaultsConfig, NoProfiles)]}

LoginEnvs ==
    {Env(None, None, None, None), Env("ea", None, "12345", "esec"),
     Env("ea", None, None, None)}

InitLogin ==
    /\ file \in LoginFiles
    /\ env \in LoginEnvs
    /\ perm = InitPerm(file)
    /\ last = NoLast
    /\ LoginInit

NextLogin ==
    \/ \E p \in Prompted : LoginStart(p)
    \/ \E token \in StateTokens : StartCallbackServer(token)
    \/ ThreadStart
    \/ JoinFinished
    \/ JoinTimeout
    \/ ServerClose
    \/ CheckError
    \/ CheckCode
    \/ CheckState
    \/ \E ok \in BOOLEAN : ExchangeCode(ok)
    \/ LoginSave
    \/ \E q \in Requests : Accept(q)
    \/ ListenEnds
    \/ Capture
    \/ CaptureState
    \/ Respond
    \/ ProcessExit
    \/ Interrupt

SpecLogin == InitLogin /\ [][NextLogin]_vars

\* interactive_login called more than once in one process
RetryTokens == {"s1", "s2", "s3"}

RetryRequests ==
    [error : {Absent, "access_denied"}, code : {Absent, "c1"},
     state : {Absent} \cup RetryTokens]

InitRetry ==
    /\ file = [exists |-> TRUE, malformed |-> FALSE,
               data |-> Toml("67890", "fsec", EmptyAuth, DefaultsConfig,
                             NoProfiles)]
    /\ env = NoEnv
    /\ perm = InitPerm(file)
    /\ last = NoLast
    /\ LoginInit

NextRetry ==
    \/ LoginStart(None)
    \/ \E token \in RetryTokens : StartCallbackServer(token)
    \/ ThreadStart
    \/ JoinFinished
    \/ JoinTimeout
    \/ ServerClose
    \/ CheckError
    \/ CheckCode
    \/ CheckState
    \/ \E ok \in BOOLEAN : ExchangeCode(ok)
    \/ \E q \in RetryRequests : Accept(q)
    \/ ListenEnds
    \/ Capture
    \/ CaptureState
    \/ Respond
    \/ Interrupt
    \/ LoginAgain
    \/ \E q \in RetryRequests : LingerAccept(q)
    \/ LingerListenEnds
    \/ LingerCapture
    \/ LingerCaptureState
    \/ LingerRespond

SpecRetry == InitRetry /\ [][NextRetry]_vars

-----------------------------------------------------------------------------
(* Claims about the token lifecycle (Spec) and the config store (SpecLoad) *)

\* the record the client was built on, as loaded, and after the call
Pre == SlotAuth(last.loaded, last.slot)
Post == SlotAuth(last.cfg, last.slot)

\* C1: a command on a record that has an access_token, is expired and has no
\* refresh_token fails with AuthenticationError, and the API operation is
\* not issued.
C1_ExpiredWithoutRefreshFails ==
    (/\ last.op = "api"
     /\ last.err # "AttributeError"
     /\ is_authenticated(Pre)
     /\ (Pre.expires_at = NoInt \/ Pre.expires_at <= last.at)
     /\ Pre.refresh_token = None)
    => (last.err = "AuthenticationError" /\ ~last.apiIssued)

\* C4: ensure_authenticated on an authenticated, expired record with a
\* refresh_token, whose refresh exchange was sent and answered completely,
\* succeeds; the record then holds the access_token, refresh_token and
\* expires_at of the answer, and its athlete_id is what it was.
C4_RefreshOnEnsure ==
    (/\ last.op = "api"
     /\ Pre.access_token # None
     /\ (Pre.expires_at = NoInt \/ Pre.expires_at <= last.at)
     /\ Pre.refresh_token # None
     /\ last.resp.status = "ok"
     /\ ResponseKeys \subseteq last.resp.keys)
    => (/\ last.err = NoError
        /\ last.apiIssued
        /\ Post.access_token = last.resp.access_token
        /\ Post.refresh_token = last.resp.refresh_token
        /\ Post.expires_at = last.resp.expires_at
        /\ Post.athlete_id = Pre.athlete_id)

C4_Witness ==
    /\ last.op = "api"
    /\ Pre.access_token = "a0"
    /\ Pre.expires_at = 1
    /\ last.at = 1
    /\ Pre.refresh_token = "r0"
    /\ Pre.athlete_id = 7
    /\ last.resp.status = "ok"
    /\ ResponseKeys \subseteq last.resp.keys
    /\ Post.access_token = "a1"
    /\ Post.athlete_id = 7

\* the records of a document, by slot
Slots(profiles) == {"auth"} \cup DOMAIN profiles

FileAuth(f, slot) == IF slot = "auth" THEN f.data.auth ELSE f.data.profiles[slot]

\* C5: a step of ensure_authenticated, handle_unauthorized or `auth refresh`,
\* whether the refresh succeeds or fails, keeps every athlete_id that was
\* present: in the config object in memory, and in the file.
C5_RefreshKeepsAthleteId ==
    [][last'.op \in {"api", "handle_unauthorized", "auth_refresh"} =>
        /\ \A sl \in Slots(last'.loaded.profiles) :
              SlotAuth(last'.loaded, sl).athlete_id # NoInt =>
                 /\ sl \in Slots(last'.cfg.profiles)
                 /\ SlotAuth(last'.cfg, sl).athlete_id =
                        SlotAuth(last'.loaded, sl).athlete_id
        /\ file.exists =>
              /\ file'.exists
              /\ \A sl \in Slots(file.data.profiles) :
                    FileAuth(file, sl).athlete_id # NoInt =>
                       /\ sl \in Slots(file'.data.profiles)
                       /\ FileAuth(file', sl).athlete_id =
                              FileAuth(file, sl).athlete_id]_vars

C5_Witness ==
    /\ last.op \in {"api", "auth_refresh"}
    /\ last.err = NoError
    /\ last.exchanges = 1
    /\ Pre.athlete_id = 7
    /\ Post.athlete_id = 7
    /\ file.exists
    /\ file.data.auth.athlete_id = 7
    /\ file.data.auth.access_token = "a1"

\* C6: when ensure_authenticated attempts a refresh and the exchange fails
\* or its answer is incomplete, the call fails with TokenRefreshError and
\* the API operation is not issued.
C6_FailedRefreshOnEnsure ==
    (/\ last.op = "api"
     /\ Pre.access_token # None
     /\ (Pre.expires_at = NoInt \/ Pre.expires_at <= last.at)
     /\ Pre.refresh_token # None
     /\ last.exchanges >= 1
     /\ ~(last.resp.status = "ok" /\ ResponseKeys \subseteq last.resp.keys))
    => (last.err = "TokenRefreshError" /\ ~last.apiIssued)

C6_Witness ==
    /\ last.op = "api"
    /\ Pre.access_token = "a0"
    /\ Pre.refresh_token = "r0"
    /\ last.exchanges = 1
    /\ last.resp.status = "ok"
    /\ last.resp.keys = ResponseKeys \ {"expires_at"}
    /\ last.err = "TokenRefreshError"

\* C7: handle_unauthorized calls refresh_token at most once and sends at
\* most one exchange: with a refresh_token it calls it exactly once and
\* returns normally when the refresh succeeds; when the refresh fails, or
\* there is no refresh_token, it raises AuthenticationError with the hint to
\* run the login again.
C7_HandleUnauthorizedOnce ==
    last.op = "handle_unauthorized" =>
        /\ last.refreshCalls <= 1
        /\ last.exchanges <= 1
        /\ IF Pre.refresh_token # None
           THEN /\ last.refreshCalls = 1
                /\ IF last.resp.status = "ok" /\ ResponseKeys \subseteq last.resp.keys
                   THEN last.err = NoError
                   ELSE last.err = "AuthenticationError" /\ last.hint = LoginHint
           ELSE /\ last.refreshCalls = 0
                /\ last.err = "AuthenticationError"
                /\ last.hint = LoginHint

C7_Witness ==
    /\ last.op = "handle_unauthorized"
    /\ Pre.refresh_token = "r0"
    /\ last.refreshCalls = 1
    /\ last.exchanges = 1
    /\ last.resp.status = "error"
    /\ last.err = "AuthenticationError"

\* C8: ensure_authenticated raises AuthenticationError (the class itself)
\* exactly when the record's access_token is absent, whatever the other
\* fields are, and then attempts no refresh.
C8_UnauthenticatedFails ==
    (last.op = "api" /\ last.err # "AttributeError") =>
        /\ (last.err = "AuthenticationError") <=> (Pre.access_token = None)
        /\ Pre.access_token = None =>
              (last.refreshCalls = 0 /\ last.exchanges = 0 /\ ~last.apiIssued)

C8_Witness ==
    /\ last.op = "api"
    /\ Pre.access_token = None
    /\ Pre.refresh_token = "r0"
    /\ Pre.expires_at = 1
    /\ last.err = "AuthenticationError"

\* C9: is_expired is true iff expires_at is absent or expires_at <= the
\* clock; false exactly when expires_at is after the clock.
C9_IsExpired ==
    last.op = "is_expired" =>
        (last.expired <=> (Pre.expires_at = NoInt \/ Pre.expires_at <= last.at))

C9_Witness ==
    /\ last.op = "is_expired"
    /\ Pre.expires_at # NoInt
    /\ Pre.expires_at = last.at
    /\ last.expired

\* C10 as stated: after Config.load, each of access token, refresh token,
\* client id and client secret whose environment variable is set carries
\* the environment's value.
C10_EnvAlwaysWins ==
    last.op = "load" =>
        /\ env.STRAVA_ACCESS_TOKEN # None =>
              last.loaded.auth.access_token = env.STRAVA_ACCESS_TOKEN
        /\ env.STRAVA_REFRESH_TOKEN # None =>
              last.loaded.auth.refresh_token = env.STRAVA_REFRESH_TOKEN
        /\ env.STRAVA_CLIENT_ID # None =>
              last.loaded.client_id = env.STRAVA_CLIENT_ID
        /\ env.STRAVA_CLIENT_SECRET # None =>
              last.loaded.client_secret = env.STRAVA_CLIENT_SECRET

\* what the file alone gives
FileConfig == IF file.exists THEN _load_from_file(file.data) ELSE EmptyConfig

\* C10 amended: after Config.load the default record's access and refresh
\* token are the environment's when the variable is set and not empty, and
\* the file's otherwise; client_id and client_secret of the document are
\* the file's whatever the environment holds.  get_client_credentials gives
\* the environment's client id and secret when set and not empty, else the
\* file's.
C10_EnvWinsForTokens ==
    /\ last.op = "load" =>
          /\ last.loaded.auth.access_token =
                IF env.STRAVA_ACCESS_TOKEN \notin {None, ""}
                THEN env.STRAVA_ACCESS_TOKEN ELSE FileConfig.auth.access_token
          /\ last.loaded.auth.refresh_token =
                IF env.STRAVA_REFRESH_TOKEN \notin {None, ""}
                THEN env.STRAVA_REFRESH_TOKEN ELSE FileConfig.auth.refresh_token
          /\ last.loaded.client_id = FileConfig.client_id
          /\ last.loaded.client_secret = FileConfig.client_secret
    /\ last.op = "credentials" =>
          /\ last.creds.client_id =
                IF env.STRAVA_CLIENT_ID \notin {None, ""}
                THEN env.STRAVA_CLIENT_ID ELSE FileConfig.client_id
          /\ last.creds.client_secret =
                IF env.STRAVA_CLIENT_SECRET \notin {None, ""}
                THEN env.STRAVA_CLIENT_SECRET ELSE FileConfig.client_secret

C10_Witness ==
    /\ last.op = "load"
    /\ env.STRAVA_ACCESS_TOKEN = "ea"
    /\ env.STRAVA_CLIENT_ID = "12345"
    /\ file.exists
    /\ file.data.auth.access_token = "a0"
    /\ file.data.client.id = "67890"
    /\ last.loaded.auth.access_token = "ea"
    /\ last.loaded.client_id = "67890"

\* What the callback request carried, as the handler sees it
CapturedState ==
    IF parse_qs(req).state = Absent THEN None ELSE parse_qs(req).state

ProviderError == parse_qs(req).error

\* C2: when the state captured from the callback differs from the token the
\* flow generated (no state sent included), the token exchange is never
\* called and the flow does not succeed, even with a code captured.
C2_StateMismatchNeverExchanges ==
    (req # NoRequest /\ CapturedState # expected) =>
        /\ login.exchanges = 0
        /\ fg \notin {"exchange", "save"}
        /\ login.outcome \notin {"exchanged", "exchange_failed", "success"}

C2_Witness ==
    /\ fg = "done"
    /\ handler.auth_code = "c1"
    /\ handler.state # expected
    /\ login.joined
    /\ login.outcome = "state_mismatch"
    /\ login.exchanges = 0

\* C3 as stated: a callback request with an error parameter makes the flow
\* fail reporting the provider's error string, without a token exchange.
C3_ErrorParameterReported ==
    (fg = "done" /\ req.error # Absent) =>
        /\ login.outcome = "provider_error"
        /\ login.reported = req.error
        /\ login.exchanges = 0

\* C3: a callback request with a non-empty error parameter never leads to
\* a token exchange and the flow ends without a record: reporting the
\* provider's error string when the listener thread ended within the join,
\* and that or a timeout when the join timed out first (nothing, when the
\* operator interrupted the flow before its checks).
C3_NonEmptyErrorFails ==
    (ProviderError # Absent) =>
        /\ login.exchanges = 0
        /\ fg \notin {"check_state", "exchange", "save"}
        /\ (fg = "done") =>
              /\ login.outcome \in {"provider_error", "timeout", "interrupted"}
              /\ (login.outcome = "provider_error") =>
                    login.reported = ProviderError
              /\ login.joined => login.outcome = "provider_error"

C3_Witness ==
    /\ fg = "done"
    /\ req.error = "access_denied"
    /\ req.code = "c1"
    /\ req.state = expected
    /\ login.joined
    /\ login.outcome = "provider_error"
    /\ login.reported = "access_denied"
    /\ login.exchanges = 0

\* C11: after every completed Config.save, whatever the modes before, the
\* file's mode is exactly 0o600 and its directory's exactly 0o700.
C11_SavedModes ==
    (saver.pc = "done") =>
        /\ perm.file = S_IRUSR + S_IWUSR
        /\ perm.dir = S_IRWXU
        /\ file.exists

C11_Witness ==
    /\ saver.pc = "done"
    /\ saver.before.dir = 511
    /\ saver.before.file = 438
    /\ perm.file = S_IRUSR + S_IWUSR
    /\ perm.dir = S_IRWXU

\* a mode that lets the group or the others read
GroupOtherRead(m) == (m \div 32) % 2 = 1 \/ (m \div 4) % 2 = 1

\* C12: at no step of Config.save, the first save included, does the file
\* hold the tokens this save wrote while its mode lets group or others read.
C12_NoReadableWindow ==
    (saver.pc = "chmod_file" /\ HasTokens(file)) => ~GroupOtherRead(perm.file)

\* absent-vs-empty normalization of a document: an empty string is no value
NormalStr(x) == IF x = "" THEN None ELSE x

NormalAuth(a) ==
    [a EXCEPT !.access_token = NormalStr(@), !.refresh_token = NormalStr(@)]

Normalized(doc) ==
    [doc EXCEPT !.client_id = NormalStr(@), !.client_secret = NormalStr(@),
                !.auth = NormalAuth(@),
                !.profiles = [n \in DOMAIN @ |-> NormalAuth(@[n])]]

\* C13: loading what save(doc) wrote, with no environment overrides, gives
\* a document equivalent to doc up to absent-vs-empty normalization, every
\* record's tokens and scopes included.
C13_RoundTrip ==
    (last.op = "reload" /\ saver.pc = "idle") =>
        /\ last.err = NoError
        /\ last.loaded = Normalized(saver.doc)

\* C14: Config.load on a malformed config file fails with
\* ConfigurationError, which the command boundary reports with exit code 2.
C14_MalformedIsConfigurationError ==
    (last.op \in {"load", "load_raised"} /\ file.exists /\ file.malformed) =>
        /\ last.err = "ConfigurationError"
        /\ last.exit = 2

\* a profile name was given
Given(name) == name \notin {None, ""}

\* C15: get_profile(name) returns the named profile's record iff a name is
\* given and is a key of the profiles; otherwise the default record; the
\* document is left as it was.
C15_GetProfile ==
    (last.op = "get_profile") =>
        /\ last.ret =
              IF Given(last.profile) /\ last.profile \in DOMAIN last.loaded.profiles
              THEN last.loaded.profiles[last.profile]
              ELSE last.loaded.auth
        /\ last.cfg = last.loaded

C15_Witness ==
    /\ last.op = "get_profile"
    /\ last.profile = "home"
    /\ "work" \in DOMAIN last.loaded.profiles
    /\ last.loaded.auth.access_token = "a0"
    /\ last.ret = last.loaded.auth
    /\ last.ret # last.loaded.profiles["work"]

\* C16: clear_auth empties exactly one record, the named profile's if the
\* name exists, else the default one; profile names, every other record,
\* the client credentials and the defaults are unchanged.
C16_ClearAuth ==
    (last.op = "clear_auth") =>
        LET named == Given(last.profile) /\ last.profile \in DOMAIN last.loaded.profiles
        IN  /\ DOMAIN last.cfg.profiles = DOMAIN last.loaded.profiles
            /\ \A n \in DOMAIN last.loaded.profiles :
                  last.cfg.profiles[n] =
                     IF named /\ n = last.profile THEN EmptyAuth
                     ELSE last.loaded.profiles[n]
            /\ last.cfg.auth = IF named THEN last.loaded.auth ELSE EmptyAuth
            /\ last.cfg.client_id = last.loaded.client_id
            /\ last.cfg.client_secret = last.loaded.client_secret
            /\ last.cfg.defaults = last.loaded.defaults

C16_Witness ==
    /\ last.op = "clear_auth"
    /\ last.profile = "work"
    /\ "work" \in DOMAIN last.loaded.profiles
    /\ last.loaded.profiles["work"].access_token = "p0"
    /\ last.loaded.auth.access_token = "a0"
    /\ last.cfg.profiles["work"] = EmptyAuth
    /\ last.cfg.auth = last.loaded.auth

\* C17: after `auth logout` completes, with or without --revoke and whether
\* or not the revocation succeeded, the persisted default record is empty,
\* and an invocation that follows with no token override in the environment
\* reports authenticated = false.
C17_LogoutClears ==
    [][/\ (last'.op = "logout" /\ last'.err = NoError) =>
             /\ file'.exists
             /\ ~file'.malformed
             /\ file'.data.auth = EmptyAuth
             /\ ~is_authenticated(Load(file', NoEnv).auth)
       /\ (/\ last.op = "logout"
           /\ last.err = NoError
           /\ last'.op = "status"
           /\ ~Truthy(env.STRAVA_ACCESS_TOKEN)) =>
             /\ last'.err = NoError
             /\ ~last'.authenticated]_vars

C17_Witness ==
    /\ last.op = "logout"
    /\ last.err = NoError
    /\ last.revoked = "False"
    /\ last.loaded.auth.access_token = "a0"
    /\ last.loaded.auth.refresh_token = "r0"
    /\ file.data.auth = EmptyAuth
    /\ file.data.client.id = "67890"

C19_RefreshFailureExitsTwo ==
    (last.op = "auth_refresh" /\ last.err # NoError) => last.exit = 2

\* C20: every error during any step of a command, the sub-steps of
\* `context` included, reaches the command boundary, is reported there and
\* ends the process with its code; none is swallowed with the command
\* going on to exit 0.
C20_NoErrorSwallowed ==
    (last.op \in {"wrapped", "context"}) =>
        /\ last.swallowed = {}
        /\ (last.err # NoError) => last.exit # 0
        /\ (last.err \in StravaCLIErrors) =>
              (last.caught /\ last.exit = exit_code(last.err))


-----------------------------------------------------------------------------
(* Claims about `activities delete`, the listener's threads, the atomicity  *)
(* of a save and what a refresh persists                                    *)

\* C21: `activities delete` calls the upstream delete only if --force was
\* given or the operator answered the confirmation with yes; when the
\* confirmation is declined the command aborts, and neither a delete nor a
\* token refresh is issued and the file stays as it was
C21_DeleteOnlyConfirmed ==
    (last.op = "delete") =>
        /\ last.apiIssued => (last.force \/ last.answer = "y")
        /\ (~last.force /\ last.answer \in {"n", "", "eof"}) =>
              /\ last.err = "Abort"
              /\ ~last.apiIssued
              /\ last.exchanges = 0
              /\ last.cfg = last.loaded

C21_Witness ==
    /\ last.op = "delete"
    /\ ~last.force
    /\ last.answer = "n"
    /\ last.authenticated
    /\ Truthy(SlotAuth(last.loaded, last.slot).refresh_token)
    /\ last.err = "Abort"

\* C22: the foreground of the login flow reads the captured error, code and
\* state only after the listener thread has finished writing them: while it
\* checks them the thread is never inside do_GET before its last write (the
\* code set and the state not yet set).  A thread that still waits on the
\* closed socket, or still sends its page, has nothing left to write and is
\* allowed here
C22_ReadsAfterWorkerEnds ==
    (fg \in {"check_error", "check_code", "check_state", "exchange"}) =>
        worker \notin {"do_GET", "state"}

\* C23: a Config.load that runs while a Config.save of the same file is in
\* progress gets what a load of the previous file gives or what a load of
\* the complete new file gives, never an empty or partly written document
C23_LoadSeesOldOrNew ==
    [][(/\ last'.op = "concurrent_load"
        /\ saver' = saver
        /\ saver.pc \notin {"idle", "raised"}) =>
          <<last'.err, last'.loaded>> \in
              {Outcome(saver.old, env), Outcome(save(saver.doc), env)}]_vars

\* C24: once start_callback_server has created the listener, the listener
\* socket is closed on every way out of interactive_login
C24_ListenerClosedOnExit ==
    (fg \in {"done", "save"}) => ~serverOpen

\* C25: whatever the flows of the process before it did, what a flow finds
\* in the shared callback state when it checks it comes from the request its
\* own listener received, or is absent
C25_OutcomeFromOwnRequest ==
    (fg \in {"check_error", "check_code", "check_state", "exchange"}) =>
        /\ handler.error \in {None, ProviderError}
        /\ handler.auth_code \in {None, parse_qs(req).code}
        /\ handler.state \in {None, CapturedState}

\* C26: the listener handles at most one request per login flow: once it
\* has accepted a request it never listens again and the request of the flow
\* stays that one, and once the thread has ended nothing changes the
\* captured code, state and error until the process ends
C26_OneRequestPerFlow ==
    [][/\ (worker \in {"do_GET", "state", "respond", "done"}) =>
             (worker' # "listening" /\ req' = req)
       /\ (worker = "done" /\ ~(fg = "done" /\ fg' = "idle")) =>
             handler' = handler]_vars

C26_Witness ==
    /\ worker = "done"
    /\ req.code = "c1"
    /\ handler.auth_code = "c1"
    /\ handler.state = expected
    /\ serverOpen
    /\ fg = "join"

\* C27: a login flow that ends as a timeout (no code had arrived when the
\* foreground stopped waiting) has not called the token exchange and has
\* left the persisted credential record as it was when the flow began
C27_TimeoutChangesNothing ==
    (fg = "done" /\ login.outcome = "timeout") =>
        /\ login.exchanges = 0
        /\ FileAuth(file, "auth") = FileAuth(login.before, "auth")

\* C28: a command run with --config PATH (or STRAVA_CONFIG) on a file whose
\* [auth] record has an access_token and a refresh_token and no expires_at
\* (expired at every clock), with numeric client credentials at hand,
\* refreshes the token and leaves the file at that path holding the saved
\* configuration
C28_RefreshPersistsToGivenPath ==
    (/\ last.op = "api"
     /\ last.configPath
     /\ is_authenticated(FileAuth(last.before, "auth"))
     /\ Truthy(FileAuth(last.before, "auth").refresh_token)
     /\ FileAuth(last.before, "auth").expires_at = NoInt
     /\ IsNumeric(get_client_credentials(last.before, env).client_id)
     /\ Truthy(get_client_credentials(last.before, env).client_secret))
    => /\ last.err \in {NoError, "TokenRefreshError"}
       /\ last.refreshCalls = 1
       /\ (last.err = NoError) => file = save(last.cfg)

\* C29: when StravaClient.refresh_token fails (MissingCredentialsError or
\* TokenRefreshError), the credential record in memory and the config file
\* are as they were before the call
C29_FailedRefreshChangesNothing ==
    (/\ last.op = "api"
     /\ last.refreshCalls = 1
     /\ last.err \in {"MissingCredentialsError", "TokenRefreshError"})
    => /\ Post = Pre
       /\ file = last.before

\* C30: a token that is only in the environment (STRAVA_ACCESS_TOKEN,
\* STRAVA_REFRESH_TOKEN) is never written to the config file: after a
\* command, a token of the file's [auth] section is the one the file held
\* before or one a refresh of that record put there
C30_EnvTokensNotPersisted ==
    (last.op \in {"api", "handle_unauthorized", "auth_refresh"}) =>
        /\ FileAuth(file, "auth").access_token \in
              {FileAuth(last.before, "auth").access_token} \cup
              (IF last.slot = "auth" THEN {last.resp.access_token} ELSE {})
        /\ FileAuth(file, "auth").refresh_token \in
              {FileAuth(last.before, "auth").refresh_token} \cup
              (IF last.slot = "auth" THEN {last.resp.refresh_token} ELSE {})

============================================================================
